---- MODULE Spec2Model ----
(***************************************************************************)
(* The authentication / token life cycle of the Feedly client             *)
(* (lib/feedly.js) and the request helper it rests on (lib/utils.js).     *)
(*                                                                         *)
(* One Feedly instance is modelled, from new Feedly(options) on.  Its      *)
(* calls (REST methods through _request, refresh(), logout()) run as       *)
(* asynchronous functions: every action below is the code that runs        *)
(* between two awaits of one call, so calls interleave exactly at the      *)
(* awaits of the source.  Time is in milliseconds, as Date.getTime() is.   *)
(*                                                                         *)
(* Spec follows _getAuth, refresh() and logout(); ApiSpec follows the      *)
(* public methods to their end, REST request and callback included;        *)
(* AnySpec is Spec with any content of the token file and any answer of    *)
(* the token endpoint.                                                     *)
(***************************************************************************)
EXTENDS Integers, FiniteSets, Sequences, TLC

VARIABLES args, options, state, file, ready, now, calls, started, authorized,
          loggedOut

vars ==
  <<args, options, state, file, ready, now, calls, started, authorized, loggedOut>>

(***************************************************************************)
(* Bounds of the model.                                                    *)
(***************************************************************************)
MaxCalls == 2        \* calls of the instance that may be in flight together
MaxStarted == 2      \* calls the caller makes while others may be in flight
MaxSequel == 1       \* further calls, each made when no call is in flight
MaxNow == 2000       \* the clock stops advancing here
TickMs == 1000       \* granularity of the clock
SlopMs == 1000       \* the value given to options.slop
SuppliedExpires == 2000  \* options.access_token_expires, when tokens are supplied
ExpiresIn == 2       \* expires_in (seconds) of the tokens the provider issues
MaxStray == 1        \* requests to other paths one callback listener answers

(***************************************************************************)
(* Program constants.                                                      *)
(***************************************************************************)
MsPerSecond == 1000  \* body.expires_in * 1000
HttpOk == 200        \* res.statusCode !== 200

Calls == 1..MaxCalls

(***************************************************************************)
(* Values.  A missing property of a JavaScript object is NoStr / NoNum /   *)
(* NoExpires.  The expires property is a number (constructor option), a    *)
(* Date, an Invalid Date (new Date(NaN)) or null (parsed from JSON).       *)
(***************************************************************************)
NoStr == "undefined"
NoNum == -1

NoExpires == [ty |-> "undefined", ms |-> 0]
NullExpires == [ty |-> "null", ms |-> 0]
InvalidDate == [ty |-> "Invalid Date", ms |-> 0]
DateOf(ms) == [ty |-> "Date", ms |-> ms]
NumberOf(ms) == [ty |-> "number", ms |-> ms]

\* x != null, for the expires property
NotNull(e) == e.ty \notin {"undefined", "null"}

\* e > new Date(): a comparison with NaN is false
After(e, n) == e.ty \in {"number", "Date"} /\ e.ms > n

\* (e - new Date()) > slop: NaN > slop is false
RemainingOver(e, n, slop) == e.ty \in {"number", "Date"} /\ e.ms - n > slop

\* this.state = {}
EmptyState ==
  [access_token |-> NoStr, refresh_token |-> NoStr,
   expires |-> NoExpires, expires_in |-> NoNum]

(***************************************************************************)
(* The token file.  Its content is absent, not JSON, or the JSON text of   *)
(* a state object.  In JSON text the expires property is absent, null, a   *)
(* number, or the ISO-8601 string Date.prototype.toJSON writes, which      *)
(* keeps the millisecond.                                                  *)
(***************************************************************************)
\* JSON.stringify(this.state): an Invalid Date is written as null
stringify(s) ==
  [access_token |-> s.access_token, refresh_token |-> s.refresh_token,
   expires |-> CASE s.expires.ty = "Date" -> [ty |-> "string", ms |-> s.expires.ms]
                 [] s.expires.ty = "number" -> [ty |-> "number", ms |-> s.expires.ms]
                 [] s.expires.ty = "undefined" -> [ty |-> "absent", ms |-> 0]
                 [] OTHER -> [ty |-> "null", ms |-> 0],
   expires_in |-> s.expires_in]

\* a variant that leaves expires as JSON.parse gives it
parse_NoDate(j) ==
  [access_token |-> j.access_token, refresh_token |-> j.refresh_token,
   expires |-> j.expires, expires_in |-> j.expires_in]

\* JSON.parse(data), then expires = new Date(expires) unless it is null
parse(j) ==
  [access_token |-> j.access_token, refresh_token |-> j.refresh_token,
   expires |-> CASE j.expires.ty \in {"string", "number"} -> DateOf(j.expires.ms)
                 [] j.expires.ty = "null" -> NullExpires
                 [] OTHER -> NoExpires,
   expires_in |-> j.expires_in]

Missing == [kind |-> "missing", json |-> stringify(EmptyState)]
Corrupt == [kind |-> "corrupt", json |-> stringify(EmptyState)]
Json(j) == [kind |-> "json", json |-> j]

\* the tokens a caller hands to the constructor
SuppliedState ==
  [access_token |-> "a0", refresh_token |-> "r0",
   expires |-> NumberOf(SuppliedExpires), expires_in |-> NoNum]

\* what an earlier run of the program left in the token file
StoredState ==
  [access_token |-> "a0", refresh_token |-> "r0",
   expires |-> DateOf(ExpiresIn * MsPerSecond), expires_in |-> ExpiresIn]

InitialFiles == {Missing, Corrupt, Json(stringify(StoredState))}

(***************************************************************************)
(* The provider: the query the browser is redirected with, and the         *)
(* answers of the token endpoint.                                          *)
(***************************************************************************)
Queries ==
  {[code |-> "c1", error |-> NoStr], [code |-> NoStr, error |-> "access_denied"]}

NoBody == [access_token |-> NoStr, refresh_token |-> NoStr, expires_in |-> NoNum]

ExpiresIns == {ExpiresIn}

\* the answers to grant_type=authorization_code
AuthBodies ==
  [access_token : {"a1"}, refresh_token : {"r1"}, expires_in : ExpiresIns]

\* the answers to grant_type=revoke_token
RevokeBodies == {NoBody}

\* the answers of the REST endpoints: JSON the model does not look into
ApiBodies == {NoBody}

\* paths other than "/" that a request to the callback listener may name
StrayPaths == {"/favicon.ico"}

\* the answers to grant_type=refresh_token: a new refresh token is optional
RefreshBodies ==
  [access_token : {"a2"}, refresh_token : {NoStr, "r1"}, expires_in : ExpiresIns]

\* a token file that was not written by _save, or by another version of it:
\* tokens without the expires property
ForeignState ==
  [access_token |-> "a0", refresh_token |-> "r0",
   expires |-> NoExpires, expires_in |-> NoNum]

\* any content of the token file
AnyFiles == InitialFiles \cup {Json(stringify(ForeignState))}

\* any 200 answer of the token endpoint: expires_in may be missing
AnyBodies(bodies) ==
  bodies \cup {[access_token |-> "a3", refresh_token |-> NoStr, expires_in |-> NoNum]}

Failures ==
  {[er |-> TRUE, statusCode |-> 0, body |-> NoBody],
   [er |-> FALSE, statusCode |-> 403, body |-> NoBody]}

Responses(bodies) ==
  Failures \cup {[er |-> FALSE, statusCode |-> HttpOk, body |-> b] : b \in bodies}

\* utils.qrequest: the promise rejects on an error or a status other than 200
qrequest(r) ==
  IF r.er THEN [settled |-> "rejected", val |-> "network error"]
  ELSE IF r.statusCode # HttpOk THEN [settled |-> "rejected", val |-> "HTTP error"]
  ELSE [settled |-> "resolved", val |-> "body"]

(***************************************************************************)
(* One call of the instance.                                               *)
(*   pc     where the call is suspended                                    *)
(*   result how its promise settled                                        *)
(*   data   the text handed to writeFile by _save                          *)
(*   hist   what the call has done so far: "listen" (callback listener     *)
(*          started), "open" (browser opened), "code_x" / "refresh_x" /    *)
(*          "revoke_x" (token-endpoint request sent)                       *)
(*   query  the query of the redirect the listener received                *)
(*   answer how the token endpoint answered the call's request             *)
(*   body   the body of the token response the call merged                 *)
(*   strays the 404 answers its callback listener has given, kept until    *)
(*          the token endpoint answers                                     *)
(*   cb     whether the caller passed a callback                           *)
(*   cbs    the invocations of that callback, as (error, results)          *)
(*   header the Authorization header of the REST request it sent           *)
(*   cbURL  the address its callback listener is bound to (_auth's cbURL)  *)
(*   opened the redirect_uri of the URL the browser was opened with        *)
(*   sent   the code and redirect_uri of its authorization_code request    *)
(*   idread what this.ready was when the method read this.state.id         *)
(*   before this.state as the call found it when it began to authorize or  *)
(*          refresh, kept until the call settles                           *)
(* For a REST method, pc "done" and result are those of _getAuth; from pc  *)
(* "request" on, result is that of the promise of the REST request.        *)
(* pc "over": the method has ended, callback included.                     *)
(***************************************************************************)
Pending == [settled |-> "pending", val |-> NoStr]
Resolved(v) == [settled |-> "resolved", val |-> v]
Rejected(v) == [settled |-> "rejected", val |-> v]
Thrown(v) == [settled |-> "thrown", val |-> v]

\* the kinds of call.  "api" is _getAuth as a REST method calls it, followed
\* until _getAuth settles; "rest" is a REST method that goes through
\* this._request or this._requestURL, followed to its end; "tagEntry" is
\* one of those that first builds user/<id>/... from this.state.id
\* (tagEntry, setTagLabel, untagEntries, deleteTags, markTagRead,
\* markCategoryRead, subscribe); "markEntrySaved" is markEntrySaved or
\* markEntryUnsaved
AuthKinds == {"api", "refresh", "logout"}
ViaRequest == {"rest", "tagEntry"}
RestKinds == ViaRequest \cup {"markEntrySaved"}

NoURL == [redirect_uri |-> NoStr]
NoRequest == [code |-> NoStr, redirect_uri |-> NoStr]

NoQuery == [code |-> NoStr, error |-> NoStr]
NoAnswer == [er |-> FALSE, statusCode |-> 0]
AnswerOf(r) == [er |-> r.er, statusCode |-> r.statusCode]

NoData == [kind |-> "none", json |-> stringify(EmptyState)]

IdleCall ==
  [kind |-> "none", pc |-> "idle", result |-> Pending, data |-> NoData,
   hist |-> {}, query |-> NoQuery, answer |-> NoAnswer, body |-> NoBody,
   strays |-> 0, cb |-> FALSE, cbs |-> <<>>, header |-> NoStr,
   cbURL |-> NoStr, opened |-> NoURL, sent |-> NoRequest, idread |-> "none",
   before |-> EmptyState]

(***************************************************************************)
(* The decisions and the state changes of the code, as operators.          *)
(***************************************************************************)
\* a variant that forgets the expiry test
_validToken_NoExpiry(s, n) ==
  s.access_token # NoStr /\ s.refresh_token # NoStr /\ NotNull(s.expires)

_validToken(s, n) ==
  /\ s.access_token # NoStr
  /\ s.refresh_token # NoStr
  /\ NotNull(s.expires)
  /\ After(s.expires, n)

\* the branch _getAuth takes once this.ready has resolved
_getAuthBranch(s, n, slop) ==
  IF ~_validToken(s, n) THEN "_auth"
  ELSE IF RemainingOver(s.expires, n, slop) THEN "_refresh"
  ELSE "access_token"

\* the branch refresh() takes once this.ready has resolved
refreshBranch(s, n) == IF _validToken(s, n) THEN "_refresh" ELSE "_auth"

\* a variant that replaces the state by the body (this.state = body)
Merged_Replace(s, b, n) ==
  [access_token |-> b.access_token, refresh_token |-> b.refresh_token,
   expires |-> IF b.expires_in = NoNum THEN InvalidDate
               ELSE DateOf(n + b.expires_in * MsPerSecond),
   expires_in |-> b.expires_in]

\* Object.assign({}, this.state, body), then the new expires
Merged(s, b, n) ==
  [access_token |-> IF b.access_token # NoStr THEN b.access_token ELSE s.access_token,
   refresh_token |-> IF b.refresh_token # NoStr THEN b.refresh_token ELSE s.refresh_token,
   expires |-> IF b.expires_in = NoNum THEN InvalidDate
               ELSE DateOf(n + b.expires_in * MsPerSecond),
   expires_in |-> IF b.expires_in # NoNum THEN b.expires_in ELSE s.expires_in]

\* a variant that forgets to delete the refresh token
Cleared_KeepRefresh(s) ==
  [s EXCEPT !.access_token = NoStr, !.expires = NoExpires]

\* the delete statements of logout()
Cleared(s) ==
  [s EXCEPT !.access_token = NoStr, !.expires = NoExpires, !.refresh_token = NoStr]

\* a variant that writes whatever config_file is
SaveData_Always(o, s) == Json(stringify(s))

\* what _save hands to writeFile: nothing when config_file is null
SaveData(o, s) == IF o.config_file = "null" THEN NoData ELSE Json(stringify(s))

\* what _loadConfig leaves in this.state
Loaded(o, s, f) ==
  IF o.config_file = "null" THEN s
  ELSE IF f.kind = "json" THEN parse(f.json)
  ELSE EmptyState

\* the address of the listener of call t: options.port is 0, so every
\* listener gets a port of its own from the system
Address(t) == "http://localhost:" \o ToString(49151 + t)

\* the query of the authorization URL _auth opens, as far as it matters
AuthURL(cbu) == [redirect_uri |-> cbu]

\* a variant that sends the code without the redirect_uri
TokenRequest_NoRedirect(code, redirect) == [code |-> code, redirect_uri |-> NoStr]

\* the body of the authorization_code request of _getToken(code, redirect)
TokenRequest(code, redirect) == [code |-> code, redirect_uri |-> redirect]

\* the header _request and _requestURL build from what _getAuth returned
Authorization(auth) == "OAuth " \o auth

\* cb(null, r) or cb(er), as _nodify and utils.qrequest chain it to a
\* promise that settled as res
Invoked(res) ==
  [error |-> IF res.settled = "rejected" THEN res.val ELSE "null",
   results |-> IF res.settled = "resolved" THEN res.val ELSE NoStr]

\* utils.qserver: the server is created and server.listen is called
qserver(c) == [c EXCEPT !.pc = "listen", !.hist = @ \cup {"listen"}]

\* _refresh up to its await: the refresh_token request is sent
RefreshSent(c) == [c EXCEPT !.pc = "refreshing", !.hist = @ \cup {"refresh_x"}]

(***************************************************************************)
(* Construction.                                                           *)
(***************************************************************************)
\* the options of new Feedly(options) that only the constructor reads:
\* client_id and client_secret (given or not), and whether refresh_token,
\* access_token and access_token_expires are all given
Args ==
  [pc : {"new"}, client_id : {NoStr, "id"}, client_secret : {NoStr, "secret"},
   tokens : BOOLEAN]

\* new Feedly(options) is about to be called.  args holds the option fields
\* that only the constructor reads, options the fields later code reads;
\* this.state and this.ready do not exist yet.  file is the token file, at
\* the default path when config_file is null
Init ==
  /\ args \in Args
  /\ options \in [config_file : {"null", "~/.feedly"}, slop : {SlopMs}]
  /\ state = EmptyState
  /\ file \in InitialFiles
  /\ ready = "none"
  /\ now = 0
  /\ calls = [t \in Calls |-> IdleCall]
  /\ started = 0
  /\ authorized = FALSE
  /\ loggedOut = "no"

(***************************************************************************)
(* Actions.                                                                *)
(***************************************************************************)
\* a variant that tests client_id and client_secret last
constructor_CheckLast ==
  /\ args.pc = "new"
  /\ args' = IF args.client_id = NoStr \/ args.client_secret = NoStr
               THEN [args EXCEPT !.pc = "thrown"]
               ELSE [args EXCEPT !.pc = "constructed", !.tokens = FALSE]
  /\ state' = IF args.tokens THEN SuppliedState ELSE EmptyState
  /\ ready' = "pending"
  /\ UNCHANGED <<options, file, now, calls, started, authorized, loggedOut>>

\* the constructor: it throws when client_id or client_secret is missing;
\* otherwise it sets this.state, from the token options when all are given,
\* and starts the startup load, this.ready
constructor ==
  /\ args.pc = "new"
  /\ IF args.client_id = NoStr \/ args.client_secret = NoStr
       THEN /\ args' = [args EXCEPT !.pc = "thrown"]
            /\ UNCHANGED <<state, ready>>
       ELSE /\ args' = [args EXCEPT !.pc = "constructed", !.tokens = FALSE]
            /\ state' = IF args.tokens THEN SuppliedState ELSE EmptyState
            /\ ready' = "pending"
  /\ UNCHANGED <<options, file, now, calls, started, authorized, loggedOut>>

\* a variant without the try / catch around the read
_loadConfig_NoCatch ==
  /\ ready = "pending"
  /\ ready' = IF options.config_file = "null" \/ file.kind = "json"
                 THEN "resolved" ELSE "rejected"
  /\ state' = IF options.config_file # "null" /\ file.kind = "json"
                 THEN parse(file.json) ELSE state
  /\ UNCHANGED <<args, options, file, now, calls, started, authorized, loggedOut>>

\* this.ready resolves: _loadConfig (and _loadHTML) have finished
_loadConfig ==
  /\ ready = "pending"
  /\ ready' = "resolved"
  /\ state' = Loaded(options, state, file)
  /\ UNCHANGED <<args, options, file, now, calls, started, authorized, loggedOut>>

\* Promise reactions are microtasks: a continuation waiting for a promise
\* that has settled (this.ready for a waiting call, the call's own promise
\* for the caller) runs before the next timer or I/O event is handled
Settled ==
  \E t \in Calls :
    calls[t].pc \in {"done", "over"} \/ (ready \in {"resolved", "rejected"} /\ calls[t].pc = "ready")

\* so does the continuation of await this._save() when _save wrote nothing
Microtask ==
  Settled \/ \E t \in Calls : calls[t].pc = "save" /\ calls[t].data.kind = "none"

\* a variant with a single-flight guard: a call that finds another call
\* authorizing or refreshing joins it instead of deciding for itself
Proceed_SingleFlight(t, c) ==
  IF /\ c.kind # "logout"
     /\ \E u \in Calls \ {t} : calls[u].pc \in {"listen", "callback", "token", "refreshing"}
    THEN /\ calls' = [calls EXCEPT ![t] = [c EXCEPT !.pc = "joined"]]
         /\ state' = state
         /\ loggedOut' = loggedOut
    ELSE
      LET branch == IF c.kind \in {"api"} \cup ViaRequest THEN _getAuthBranch(state, now, options.slop)
                    ELSE refreshBranch(state, now)
      IN  IF c.kind = "logout"
            THEN /\ state' = Cleared(state)
                 /\ calls' = [calls EXCEPT ![t] =
                      [c EXCEPT !.pc = "save", !.hist = @ \cup {"revoke_x"},
                         !.data = SaveData(options, Cleared(state))]]
                 /\ loggedOut' = "clearing"
            ELSE /\ state' = state
                 /\ loggedOut' = IF branch = "_auth" THEN "no" ELSE loggedOut
                 /\ calls' = [calls EXCEPT ![t] =
                      CASE branch = "_auth" -> qserver([c EXCEPT !.before = state])
                        [] branch = "_refresh" -> RefreshSent([c EXCEPT !.before = state])
                        [] OTHER -> [c EXCEPT !.pc = "done",
                                       !.result = Resolved(state.access_token)]]

\* what a call does once this.ready has resolved, up to its first await:
\* _getAuth and refresh() choose a branch; logout() sends the revoke request
\* without awaiting it, deletes the tokens and calls _save
Proceed(t, c) ==
  LET branch == IF c.kind \in {"api"} \cup ViaRequest THEN _getAuthBranch(state, now, options.slop)
                ELSE refreshBranch(state, now)
  IN  IF c.kind = "logout"
        THEN /\ state' = Cleared(state)
             /\ calls' = [calls EXCEPT ![t] =
                  [c EXCEPT !.pc = "save", !.hist = @ \cup {"revoke_x"},
                     !.data = SaveData(options, Cleared(state))]]
             /\ loggedOut' = "clearing"
        ELSE /\ state' = state
             /\ loggedOut' = IF branch = "_auth" THEN "no" ELSE loggedOut
             /\ calls' = [calls EXCEPT ![t] =
                  CASE branch = "_auth" -> qserver([c EXCEPT !.before = state])
                    [] branch = "_refresh" -> RefreshSent([c EXCEPT !.before = state])
                    [] OTHER -> [c EXCEPT !.pc = "done",
                                   !.result = Resolved(state.access_token)]]

\* await this.ready, once the promise has settled: the call goes on, or
\* throws what the promise was rejected with
Awaited(t, c) ==
  IF ready = "rejected"
    THEN /\ calls' = [calls EXCEPT ![t] =
              [c EXCEPT !.pc = "done", !.result = Rejected("read error")]]
         /\ state' = state
         /\ loggedOut' = loggedOut
    ELSE Proceed(t, c)

\* a variant in which the methods do not await this.ready
Call_NoAwait(t, k, cb) ==
  LET c == [IdleCall EXCEPT !.kind = k, !.pc = "ready", !.cb = cb,
                            !.idread = IF k = "tagEntry" THEN ready ELSE "none"]
  IN  /\ ~Microtask
      /\ calls[t].pc = "idle"
      /\ \/ started < MaxStarted
         \/ started < MaxStarted + MaxSequel /\ \A u \in Calls : calls[u].pc = "idle"
      /\ started' = started + 1
      /\ \A u \in Calls : u < t => calls[u].pc # "idle"
      /\ ready # "none"
      /\ IF k = "markEntrySaved"
           THEN /\ calls' = [calls EXCEPT ![t] =
                     [c EXCEPT !.pc = "over", !.result = Thrown("ReferenceError")]]
                /\ state' = state
                /\ loggedOut' = loggedOut
           ELSE Awaited(t, c)
      /\ authorized' = IF k = "logout" THEN FALSE ELSE authorized
      /\ UNCHANGED <<args, options, file, ready, now>>

\* the caller starts a REST method, refresh() or logout(), with or without
\* a callback.  markEntrySaved and markEntryUnsaved throw at once: they
\* name f, which is not defined.  The others await this.ready first: when
\* it has resolved already, the call goes on in the same turn, before any
\* other event is handled
Call(t, k, cb) ==
  LET c == [IdleCall EXCEPT !.kind = k, !.pc = "ready", !.cb = cb,
                            !.idread = IF k = "tagEntry" THEN ready ELSE "none"]
  IN  /\ ~Microtask
      /\ calls[t].pc = "idle"
      /\ \/ started < MaxStarted
         \/ started < MaxStarted + MaxSequel /\ \A u \in Calls : calls[u].pc = "idle"
      /\ started' = started + 1
      /\ \A u \in Calls : u < t => calls[u].pc # "idle"
      /\ ready # "none"
      /\ IF k = "markEntrySaved"
           THEN /\ calls' = [calls EXCEPT ![t] =
                     [c EXCEPT !.pc = "over", !.result = Thrown("ReferenceError")]]
                /\ state' = state
                /\ loggedOut' = loggedOut
           ELSE IF ready = "pending"
                  THEN /\ calls' = [calls EXCEPT ![t] = c]
                       /\ state' = state
                       /\ loggedOut' = loggedOut
                  ELSE Awaited(t, c)
      /\ authorized' = IF k = "logout" THEN FALSE ELSE authorized
      /\ UNCHANGED <<args, options, file, ready, now>>

\* this.ready resolves for a call that was waiting for it
Ready(t) ==
  /\ calls[t].pc = "ready" /\ ready \in {"resolved", "rejected"}
  /\ \A u \in Calls : calls[u].pc # "done" /\ (u < t => calls[u].pc # "ready")
  /\ Awaited(t, calls[t])
  /\ UNCHANGED <<args, options, file, ready, now, started, authorized>>

\* the listener is bound: the opener is called with its address, keeps it
\* in cbURL and opens the browser with it as redirect_uri
Listening(t) ==
  /\ ~Microtask
  /\ calls[t].pc = "listen"
  /\ calls' = [calls EXCEPT ![t] =
       [@ EXCEPT !.pc = "callback", !.hist = @ \cup {"open"},
          !.cbURL = Address(t), !.opened = AuthURL(Address(t))]]
  /\ UNCHANGED <<args, options, state, file, ready, now, started, authorized, loggedOut>>

\* the listener cannot bind: server.close(), and the promise stays pending
ListenError(t) ==
  /\ ~Microtask
  /\ calls[t].pc = "listen"
  /\ calls' = [calls EXCEPT ![t] = [@ EXCEPT !.pc = "hung"]]
  /\ UNCHANGED <<args, options, state, file, ready, now, started, authorized, loggedOut>>

\* a variant that treats every path as "/"
NotFound_Resolves(t, p) ==
  /\ ~Microtask
  /\ calls[t].pc = "callback"
  /\ calls[t].strays < MaxStray
  /\ calls' = [calls EXCEPT ![t] =
       [@ EXCEPT !.pc = "token", !.strays = @ + 1, !.hist = @ \cup {"code_x"}]]
  /\ UNCHANGED <<args, options, state, file, ready, now, started, authorized, loggedOut>>

\* a request for another path arrives at the listener: it is answered 404,
\* the promise of qserver stays pending and the server stays open
NotFound(t, p) ==
  /\ ~Microtask
  /\ calls[t].pc = "callback"
  /\ p # "/"
  /\ calls[t].strays < MaxStray
  /\ calls' = [calls EXCEPT ![t] = [@ EXCEPT !.strays = @ + 1]]
  /\ UNCHANGED <<args, options, state, file, ready, now, started, authorized, loggedOut>>

\* a variant that does not look at the error parameter
Callback_IgnoreError(t, q) ==
  /\ ~Microtask
  /\ calls[t].pc = "callback"
  /\ calls' = [calls EXCEPT ![t] =
       [@ EXCEPT !.pc = "token", !.query = q, !.hist = @ \cup {"code_x"},
          !.sent = TokenRequest(q.code, calls[t].cbURL)]]
  /\ UNCHANGED <<args, options, state, file, ready, now, started, authorized, loggedOut>>

\* the redirect arrives at "/": qserver resolves with its query and closes
\* the server, and _auth goes on, to throw the error or to send the
\* authorization_code request (_getToken)
Callback(t, q) ==
  /\ ~Microtask
  /\ calls[t].pc = "callback"
  /\ calls' = [calls EXCEPT ![t] =
       IF q.error # NoStr
         THEN [@ EXCEPT !.pc = "done", !.query = q, !.result = Rejected(q.error),
                 !.before = EmptyState]
         ELSE [@ EXCEPT !.pc = "token", !.query = q, !.hist = @ \cup {"code_x"},
                 !.sent = TokenRequest(q.code, calls[t].cbURL)]]
  /\ UNCHANGED <<args, options, state, file, ready, now, started, authorized, loggedOut>>

\* a variant that merges the body of a failed request before rejecting
Answer_MergeOnFailure(t, r) ==
  LET c == calls[t]
      new == Merged(state, r.body, now)
  IN  IF qrequest(r).settled = "rejected"
        THEN /\ calls' = [calls EXCEPT ![t] =
                   [c EXCEPT !.pc = "done", !.answer = AnswerOf(r), !.strays = 0,
                      !.before = EmptyState,
                      !.result = Rejected(qrequest(r).val)]]
             /\ state' = new
        ELSE /\ state' = new
             /\ calls' = [calls EXCEPT ![t] =
                  [c EXCEPT !.pc = "save", !.answer = AnswerOf(r), !.body = r.body,
                     !.strays = 0,
                     !.data = SaveData(options, new)]]

\* a variant that answers a failed refresh with a full authorization
Answer_Fallback(t, r) ==
  LET c == calls[t]
      new == Merged(state, r.body, now)
  IN  IF qrequest(r).settled = "rejected"
        THEN /\ calls' = [calls EXCEPT ![t] =
                   IF c.pc = "refreshing"
                     THEN qserver([c EXCEPT !.answer = AnswerOf(r)])
                     ELSE [c EXCEPT !.pc = "done", !.answer = AnswerOf(r), !.strays = 0,
                      !.before = EmptyState,
                             !.result = Rejected(qrequest(r).val)]]
             /\ UNCHANGED state
        ELSE /\ state' = new
             /\ calls' = [calls EXCEPT ![t] =
                  [c EXCEPT !.pc = "save", !.answer = AnswerOf(r), !.body = r.body,
                     !.strays = 0,
                     !.data = SaveData(options, new)]]

\* the token endpoint answers: _getToken / _refresh after their await
Answer(t, r) ==
  LET c == calls[t]
      new == Merged(state, r.body, now)
  IN  IF qrequest(r).settled = "rejected"
        THEN /\ calls' = [calls EXCEPT ![t] =
                   [c EXCEPT !.pc = "done", !.answer = AnswerOf(r), !.strays = 0,
                      !.before = EmptyState,
                      !.result = Rejected(qrequest(r).val)]]
             /\ UNCHANGED state
        ELSE /\ state' = new
             /\ calls' = [calls EXCEPT ![t] =
                  [c EXCEPT !.pc = "save", !.answer = AnswerOf(r), !.body = r.body,
                     !.strays = 0,
                     !.data = SaveData(options, new)]]

\* loggedOut: "clearing" from the step in which logout() deletes the tokens,
\* "done" once that logout() has resolved, and "no" again when logout()
\* rejects or a later call starts a full authorization
\* authorized: an authorization_code exchange has succeeded and logout()
\* has not been called since
TokenResponse(t, r) ==
  /\ ~Microtask
  /\ calls[t].pc = "token"
  /\ Answer(t, r)
  /\ authorized' = (authorized \/ qrequest(r).settled = "resolved")
  /\ UNCHANGED <<args, options, file, ready, now, started, loggedOut>>

RefreshResponse(t, r) ==
  /\ ~Microtask
  /\ calls[t].pc = "refreshing"
  /\ Answer(t, r)
  /\ UNCHANGED <<args, options, file, ready, now, started, authorized, loggedOut>>

\* the token endpoint answers the revoke request of a logout() that awaits
\* its write.  logout() holds the promise of the request without awaiting
\* it: whether it resolves or rejects, no code of the instance runs
RevokeResponse(t, r) ==
  /\ ~Microtask
  /\ calls[t].kind = "logout" /\ calls[t].pc = "save"
  /\ calls[t].answer = NoAnswer
  /\ calls' = [calls EXCEPT ![t] = [@ EXCEPT !.answer = AnswerOf(r)]]
  /\ UNCHANGED <<args, options, state, file, ready, now, started, authorized, loggedOut>>

\* _save has finished: the call returns (this.state.access_token, or
\* nothing for logout), or rejects with the write error
Saved(t, ok) ==
  LET c == calls[t]
  IN  /\ ~Settled
      /\ c.pc = "save"
      /\ IF c.data.kind = "none" THEN ok ELSE ~Microtask
      /\ file' = IF ok /\ c.data.kind # "none" THEN c.data ELSE file
      /\ calls' = [calls EXCEPT ![t] =
           [c EXCEPT !.pc = "done", !.data = NoData, !.body = NoBody,
              !.before = EmptyState,
              !.result = IF ~ok THEN Rejected("write error")
                         ELSE IF c.kind = "logout" THEN Resolved(NoStr)
                         ELSE Resolved(state.access_token)]]
      /\ loggedOut' = IF c.kind = "logout" /\ loggedOut = "clearing"
                         THEN (IF ok THEN "done" ELSE "no")
                         ELSE loggedOut
      /\ UNCHANGED <<args, options, state, ready, now, started, authorized>>

\* _request / _requestURL after await this._getAuth(): the REST request is
\* sent with the token in its Authorization header, or the method rejects
\* with what _getAuth rejected with
_request(t) ==
  LET c == calls[t]
  IN  /\ c.kind \in ViaRequest /\ c.pc = "done"
      /\ calls' = [calls EXCEPT ![t] =
           IF c.result.settled = "resolved"
             THEN [c EXCEPT !.pc = "request", !.result = Pending,
                     !.header = Authorization(c.result.val),
                     !.hist = @ \cup {"api_x"}]
             ELSE [c EXCEPT !.pc = "over"]]
      /\ UNCHANGED <<args, options, state, file, ready, now, started, authorized, loggedOut>>

\* the REST endpoint answers: the promise of utils.qrequest settles and the
\* callback given to it, if any, is invoked
ApiResponse(t, r) ==
  LET c == calls[t]
  IN  /\ ~Microtask
      /\ c.pc = "request"
      /\ calls' = [calls EXCEPT ![t] =
           [c EXCEPT !.pc = "over", !.answer = AnswerOf(r),
              !.result = qrequest(r),
              !.cbs = IF c.cb THEN Append(@, Invoked(qrequest(r))) ELSE @]]
      /\ UNCHANGED <<args, options, state, file, ready, now, started, authorized, loggedOut>>

\* _nodify: the promise of refresh() or logout() has settled and the
\* callback chained to it is invoked
_nodify(t) ==
  LET c == calls[t]
  IN  /\ c.kind \in {"refresh", "logout"} /\ c.pc = "done" /\ c.cb
      /\ calls' = [calls EXCEPT ![t] =
           [c EXCEPT !.pc = "over", !.cbs = Append(@, Invoked(c.result))]]
      /\ UNCHANGED <<args, options, state, file, ready, now, started, authorized, loggedOut>>

\* the caller has seen the outcome
Return(t) ==
  /\ \/ calls[t].pc = "over"
     \/ calls[t].pc = "done" /\ calls[t].kind \in AuthKinds /\ ~calls[t].cb
  /\ calls' = [calls EXCEPT ![t] = IdleCall]
  /\ UNCHANGED <<args, options, state, file, ready, now, started, authorized, loggedOut>>

\* a variant in which the consent flow times out when the clock runs out
Tick_Timeout ==
  /\ ~Microtask
  /\ ready # "none"
  /\ now < MaxNow
  /\ now' = now + TickMs
  /\ calls' = [t \in Calls |->
       IF calls[t].pc = "callback" /\ now + TickMs >= MaxNow
         THEN [calls[t] EXCEPT !.pc = "done", !.result = Rejected("timeout"),
                            !.before = EmptyState]
         ELSE calls[t]]
  /\ UNCHANGED <<args, options, state, file, ready, started, authorized, loggedOut>>

\* time passes
Tick ==
  /\ ~Microtask
  /\ ready # "none"
  /\ now < MaxNow
  /\ now' = now + TickMs
  /\ UNCHANGED <<args, options, state, file, ready, calls, started, authorized, loggedOut>>

\* the authentication core: _getAuth, refresh() and logout(), promise style
Next ==
  \/ constructor
  \/ _loadConfig
  \/ Tick
  \/ \E t \in Calls :
       \/ \E k \in AuthKinds : Call(t, k, FALSE)
       \/ Ready(t)
       \/ Listening(t)
       \/ ListenError(t)
       \/ \E p \in StrayPaths : NotFound(t, p)
       \/ \E q \in Queries : Callback(t, q)
       \/ \E r \in Responses(AuthBodies) : TokenResponse(t, r)
       \/ \E r \in Responses(RefreshBodies) : RefreshResponse(t, r)
       \/ \E r \in Responses(RevokeBodies) : RevokeResponse(t, r)
       \/ \E ok \in BOOLEAN : Saved(t, ok)
       \/ Return(t)

Spec == Init /\ [][Next]_vars

\* the same instance with any content of the token file and any answer of
\* the token endpoint
InitAny ==
  /\ args \in Args
  /\ options \in [config_file : {"null", "~/.feedly"}, slop : {SlopMs}]
  /\ state = EmptyState
  /\ file \in AnyFiles
  /\ ready = "none"
  /\ now = 0
  /\ calls = [t \in Calls |-> IdleCall]
  /\ started = 0
  /\ authorized = FALSE
  /\ loggedOut = "no"

NextAny ==
  \/ constructor
  \/ _loadConfig
  \/ Tick
  \/ \E t \in Calls :
       \/ \E k \in AuthKinds : Call(t, k, FALSE)
       \/ Ready(t)
       \/ Listening(t)
       \/ ListenError(t)
       \/ \E p \in StrayPaths : NotFound(t, p)
       \/ \E q \in Queries : Callback(t, q)
       \/ \E r \in Responses(AnyBodies(AuthBodies)) : TokenResponse(t, r)
       \/ \E r \in Responses(AnyBodies(RefreshBodies)) : RefreshResponse(t, r)
       \/ \E r \in Responses(RevokeBodies) : RevokeResponse(t, r)
       \/ \E ok \in BOOLEAN : Saved(t, ok)
       \/ Return(t)

AnySpec == InitAny /\ [][NextAny]_vars

\* the public methods end to end: the REST methods, refresh() and logout(),
\* each with or without a callback
NextApi ==
  \/ constructor
  \/ _loadConfig
  \/ Tick
  \/ \E t \in Calls :
       \/ \E k \in RestKinds \cup {"refresh", "logout"}, cb \in BOOLEAN : Call(t, k, cb)
       \/ Ready(t)
       \/ Listening(t)
       \/ ListenError(t)
       \/ \E p \in StrayPaths : NotFound(t, p)
       \/ \E q \in Queries : Callback(t, q)
       \/ \E r \in Responses(AuthBodies) : TokenResponse(t, r)
       \/ \E r \in Responses(RefreshBodies) : RefreshResponse(t, r)
       \/ \E r \in Responses(RevokeBodies) : RevokeResponse(t, r)
       \/ \E ok \in BOOLEAN : Saved(t, ok)
       \/ _request(t)
       \/ \E r \in Responses(ApiBodies) : ApiResponse(t, r)
       \/ _nodify(t)
       \/ Return(t)

ApiSpec == Init /\ [][NextApi]_vars

(***************************************************************************)
(* The classes of Credentials the specification names (its section 4.3),   *)
(* recorded when a call chooses its branch.                                *)
(***************************************************************************)
Classify(s, n, slop) ==
  IF s.access_token = NoStr \/ s.refresh_token = NoStr \/ ~NotNull(s.expires)
    THEN "NoCredentials"
  ELSE IF ~After(s.expires, n) THEN "Expired"
  ELSE IF s.expires.ms - n <= slop THEN "ExpiringSoon"
  ELSE "Valid"


(***************************************************************************)
(* The steps of a call, read off two successive states.                    *)
(***************************************************************************)
\* call t, of kind k, chooses its branch in this step (this.ready has resolved)
Decides(t, k) ==
  /\ calls[t].pc \in {"idle", "ready"}
  /\ calls'[t].pc \notin {"idle", "ready"}
  /\ calls'[t].kind = k

Class == Classify(state, now, options.slop)

\* the request failed: a network error or a non-success status
Failed(a) == a.er \/ a.statusCode \notin 200..299

FullAuth == {"listen", "open", "code_x"}

(***************************************************************************)
(* C1.  When _getAuth runs with Credentials in state Valid, it returns the *)
(* stored access_token unchanged and issues no request: no token-endpoint  *)
(* call, no callback listener, no browser, and the Credentials and the     *)
(* token file are not modified.                                            *)
(* The code does not do this: it sends a refresh_token request.            *)
(***************************************************************************)
C1_ValidReturnsStoredToken ==
  [][\A t \in Calls :
       Decides(t, "api") /\ Class = "Valid"
         => /\ calls'[t].pc = "done"
            /\ calls'[t].result = Resolved(state.access_token)
            /\ calls'[t].hist = {}
            /\ state' = state
            /\ file' = file]_vars

(***************************************************************************)
(* C2.  When _getAuth runs with Credentials in state ExpiringSoon          *)
(* (0 < expires - now <= slop), it sends one refresh_token request, and    *)
(* neither returns the stored token nor starts a full authorization.       *)
(* The code does not do this: it returns the stored token.                 *)
(***************************************************************************)
C2_ExpiringSoonRefreshes ==
  [][\A t \in Calls :
       Decides(t, "api") /\ Class = "ExpiringSoon"
         => /\ calls'[t].pc = "refreshing"
            /\ calls'[t].hist = {"refresh_x"}]_vars

(***************************************************************************)
(* C3.  When _getAuth runs with Credentials in state NoCredentials or      *)
(* Expired (expires <= now, also with a refresh token present), it starts  *)
(* a full authorization and does not return the stored token; a call that  *)
(* started a full authorization resolves only after the listener was       *)
(* started, the browser opened and the authorization_code request sent.    *)
(***************************************************************************)
C3_InvalidStartsFullAuthorization ==
  [][\A t \in Calls :
       /\ Decides(t, "api") /\ Class \in {"NoCredentials", "Expired"}
            => /\ calls'[t].pc = "listen"
               /\ calls'[t].hist = {"listen"}
               /\ calls'[t].result = Pending
       /\ ( /\ calls[t].kind = "api" /\ "listen" \in calls[t].hist
            /\ calls[t].pc # "done" /\ calls'[t].pc = "done"
            /\ calls'[t].result.settled = "resolved" )
            => FullAuth \subseteq calls'[t].hist]_vars

\* an API call has started a full authorization on expired Credentials that
\* still hold an access token and a refresh token
C3_Witness ==
  \E t \in Calls :
    /\ calls[t].kind = "api" /\ calls[t].pc = "listen"
    /\ Class = "Expired" /\ state.refresh_token # NoStr

(***************************************************************************)
(* C4.  After the authorization_code exchange of a full authorization has  *)
(* succeeded, and while logout has not been called since, no call that     *)
(* chooses its branch while the stored token is unexpired (expires > now)  *)
(* starts another full authorization, whatever the token endpoint answered *)
(* to refresh requests in between.                                         *)
(***************************************************************************)
C4_NoSecondAuthorizationWhileUnexpired ==
  [][\A t \in Calls :
       /\ Decides(t, "api") \/ Decides(t, "refresh")
       /\ authorized
       /\ After(state.expires, now)
       => /\ calls'[t].pc # "listen"
          /\ "listen" \notin calls'[t].hist]_vars

\* after a successful authorization an API call was answered from the
\* stored, unexpired token
C4_Witness ==
  \E t \in Calls :
    /\ authorized /\ After(state.expires, now)
    /\ calls[t].kind = "api" /\ calls[t].pc = "done" /\ calls[t].hist = {}
    /\ calls[t].result = Resolved(state.access_token)

(***************************************************************************)
(* C5.  On a successful token exchange with response body B the            *)
(* Credentials become the previous Credentials overlaid with every field   *)
(* of B, with expires = now + B.expires_in * 1000 ms; the new state is     *)
(* handed to the token file (when enabled) and written before the          *)
(* operation resolves; and the operation resolves to the new access_token, *)
(* B.access_token.                                                         *)
(* The code does not do the last: after the write it returns whatever      *)
(* this.state.access_token has become meanwhile.                           *)
(***************************************************************************)
Overlaid(s, b) ==
  [f \in {"access_token", "refresh_token"} |-> IF b[f] = NoStr THEN s[f] ELSE b[f]]

C5_ExchangeMergesSavesAndReturns ==
  [][\A t \in Calls :
       /\ ( calls[t].pc \in {"token", "refreshing"} /\ calls'[t].pc = "save" )
            => LET b == calls'[t].body
               IN  /\ state'.access_token = Overlaid(state, b).access_token
                   /\ state'.refresh_token = Overlaid(state, b).refresh_token
                   /\ state'.expires_in = b.expires_in
                   /\ state'.expires.ty = "Date"
                   /\ state'.expires.ms = now + b.expires_in * 1000
                   /\ calls'[t].data =
                        IF options.config_file = "null" THEN NoData
                        ELSE Json(stringify(state'))
       /\ ( /\ calls[t].pc = "save" /\ calls[t].kind # "logout"
            /\ calls'[t].pc = "done" /\ calls'[t].result.settled = "resolved" )
            => /\ options.config_file # "null" => file' = calls[t].data
               /\ calls'[t].result.val = calls[t].body.access_token]_vars

(***************************************************************************)
(* C6.  During a full authorization, if the query the listener received    *)
(* holds an error parameter, _auth rejects with that error value, no       *)
(* token-exchange request is sent for the attempt, and no step of the      *)
(* attempt has changed the Credentials or the token file.                  *)
(***************************************************************************)
C6_CallbackErrorRejects ==
  [][\A t \in Calls :
       /\ ( calls'[t] # calls[t] /\ calls'[t].pc \in {"listen", "callback"} )
            => state' = state /\ file' = file
       /\ ( calls[t].pc = "callback" /\ calls'[t] # calls[t]
            /\ calls'[t].query.error # NoStr )
            => /\ calls'[t].pc = "done"
               /\ calls'[t].result = Rejected(calls'[t].query.error)
               /\ "code_x" \notin calls'[t].hist
               /\ state' = state
               /\ file' = file]_vars

\* an authorization on stored Credentials was denied and has rejected
C6_Witness ==
  \E t \in Calls :
    /\ calls[t].pc = "done" /\ calls[t].query.error = "access_denied"
    /\ calls[t].result = Rejected("access_denied")
    /\ calls[t].hist = {"listen", "open"}
    /\ state.access_token = "a0"

(***************************************************************************)
(* C7.  If the token-exchange request of a full authorization or of a      *)
(* refresh fails (network error or non-success status), the operation      *)
(* rejects, the Credentials are left as they were and the token file is    *)
(* not written.                                                            *)
(***************************************************************************)
C7_FailedExchangeLeavesCredentials ==
  [][\A t \in Calls :
       ( calls[t].pc \in {"token", "refreshing"} /\ calls'[t] # calls[t]
         /\ Failed(calls'[t].answer) )
         => /\ calls'[t].pc = "done"
            /\ calls'[t].result.settled = "rejected"
            /\ calls'[t].data = NoData
            /\ state' = state
            /\ file' = file]_vars

\* an authorization_code exchange was refused with a 403
C7_Witness ==
  \E t \in Calls :
    /\ calls[t].pc = "done" /\ "code_x" \in calls[t].hist
    /\ calls[t].answer = [er |-> FALSE, statusCode |-> 403]
    /\ calls[t].result.settled = "rejected"

(***************************************************************************)
(* C8.  When _getAuth has chosen to refresh and the refresh request fails, *)
(* the failure reaches the caller: the call rejects at once, with no       *)
(* callback listener, no browser, no authorization_code request and no     *)
(* second refresh request.                                                 *)
(***************************************************************************)
C8_GetAuthDoesNotFallBack ==
  [][\A t \in Calls :
       ( calls[t].kind = "api" /\ calls[t].pc = "refreshing"
         /\ calls'[t] # calls[t] /\ Failed(calls'[t].answer) )
         => /\ calls'[t].pc = "done"
            /\ calls'[t].result \in {Rejected("network error"), Rejected("HTTP error")}
            /\ calls'[t].hist = {"refresh_x"}]_vars

\* the refresh of an API call failed on the network and the call rejected
C8_Witness ==
  \E t \in Calls :
    /\ calls[t].kind = "api" /\ calls[t].pc = "done"
    /\ calls[t].hist = {"refresh_x"} /\ calls[t].answer.er
    /\ calls[t].result = Rejected("network error")

(***************************************************************************)
(* C9.  refresh() chooses its branch only after the startup load: with     *)
(* valid Credentials (all three fields present, not expired) it sends one  *)
(* refresh_token request however far the expiry is; otherwise it starts a  *)
(* full authorization; when it resolves, after exactly one exchange, it    *)
(* resolves to the new access token, a string.                             *)
(* The code chooses the branches so, but does not always resolve to the    *)
(* new token (see C5).                                                     *)
(***************************************************************************)
C9_ManualRefresh ==
  [][\A t \in Calls :
       /\ Decides(t, "refresh")
            => /\ ready = "resolved"
               /\ IF Class \in {"Valid", "ExpiringSoon"}
                    THEN calls'[t].pc = "refreshing" /\ calls'[t].hist = {"refresh_x"}
                    ELSE calls'[t].pc = "listen" /\ calls'[t].hist = {"listen"}
       /\ ( calls[t].kind = "refresh" /\ calls[t].pc # "done" /\ calls'[t].pc = "done"
            /\ calls'[t].result.settled = "resolved" )
            => /\ calls[t].pc = "save"
               /\ calls'[t].hist \in {{"refresh_x"}, FullAuth}
               /\ calls'[t].result.val = calls[t].body.access_token
               /\ calls'[t].result.val # NoStr]_vars

(***************************************************************************)
(* C10.  refresh() falls back to a full authorization when the             *)
(* refresh_token request it sent is rejected.                              *)
(* The code does not do this: refresh() rejects with the request's error.  *)
(***************************************************************************)
C10_ManualRefreshFallsBack ==
  [][\A t \in Calls :
       ( calls[t].kind = "refresh" /\ calls[t].pc = "refreshing"
         /\ calls'[t] # calls[t] /\ Failed(calls'[t].answer) )
         => calls'[t].pc = "listen"]_vars

(***************************************************************************)
(* C11.  logout() removes access_token, expires and refresh_token from the *)
(* Credentials and hands the cleared state to the token file in the step   *)
(* that sends the revoke request; when its write completes the token file  *)
(* holds that cleared state; and the answer to the revoke request, success *)
(* or failure, early or never, changes neither the Credentials, nor the    *)
(* token file, nor the progress of logout().                               *)
(***************************************************************************)
C11_LogoutClearsWhateverRevokeAnswers ==
  [][\A t \in Calls :
       /\ Decides(t, "logout")
            => /\ state'.access_token = NoStr
               /\ state'.refresh_token = NoStr
               /\ state'.expires = NoExpires
               /\ "revoke_x" \in calls'[t].hist
               /\ calls'[t].pc = "save"
               /\ calls'[t].answer = NoAnswer
               /\ calls'[t].data = SaveData(options, state')
       /\ ( /\ calls[t].kind = "logout" /\ calls[t].pc = "save"
            /\ calls'[t].answer # calls[t].answer )
            => /\ state' = state /\ file' = file
               /\ calls'[t] = [calls[t] EXCEPT !.answer = calls'[t].answer]
       /\ ( /\ calls[t].kind = "logout" /\ calls[t].pc = "save"
            /\ calls'[t].pc = "done" /\ calls'[t].result.settled = "resolved" )
            => /\ options.config_file # "null" => file' = calls[t].data
               /\ calls[t].data.json.access_token = NoStr
               /\ calls[t].data.json.refresh_token = NoStr
               /\ calls[t].data.json.expires.ty = "absent"]_vars

\* logout() on stored tokens has resolved although its revoke request was
\* refused while the write was pending; memory and file hold no token
C11_Witness ==
  \E t \in Calls :
    /\ calls[t].kind = "logout" /\ calls[t].pc = "done"
    /\ calls[t].result = Resolved(NoStr)
    /\ calls[t].answer = [er |-> FALSE, statusCode |-> 403]
    /\ state.access_token = NoStr /\ state.refresh_token = NoStr
    /\ state.expires = NoExpires /\ state.expires_in = ExpiresIn
    /\ file = Json(stringify(state))

(***************************************************************************)
(* C12.  Tokens given as constructor options are the Credentials once the  *)
(* startup load has completed, unless the token file supplied stored       *)
(* Credentials: a missing or unreadable token file does not discard them,  *)
(* and they are valid for the first API call while unexpired.              *)
(* The code does not do this: with config_file set, a failed read leaves   *)
(* this.state = {}.                                                        *)
(***************************************************************************)
C12_SuppliedTokensSurviveLoad ==
  [][( /\ ready = "pending" /\ ready' # "pending"
       /\ state = SuppliedState
       /\ ~(options.config_file # "null" /\ file.kind = "json") )
       => /\ state' = SuppliedState
          /\ After(state'.expires, now) => _validToken(state', now)]_vars

(***************************************************************************)
(* C13.  Loading the token file never fails the caller: when the file is   *)
(* absent, unreadable or not JSON, the startup load ends with this.ready   *)
(* resolved and empty Credentials, the file untouched; no call rejects     *)
(* with the read error; and every call that follows proceeds as with no    *)
(* Credentials: _getAuth and refresh() start a full authorization,         *)
(* logout() clears and saves.                                              *)
(***************************************************************************)
C13_LoadFailureLeavesEmptyCredentials ==
  [][/\ ( /\ ready = "pending" /\ ready' # "pending"
          /\ options.config_file # "null" /\ file.kind \in {"missing", "corrupt"} )
          => ready' = "resolved" /\ state' = EmptyState /\ file' = file
     /\ \A t \in Calls :
          /\ calls'[t].result # Rejected("read error")
          /\ ( Decides(t, calls'[t].kind) /\ state = EmptyState )
               => IF calls'[t].kind = "logout"
                    THEN calls'[t].pc = "save"
                    ELSE calls'[t].pc = "listen"]_vars

\* the token file is not JSON, the load has resolved with empty Credentials
\* and a call has gone on to a full authorization
C13_Witness ==
  \E t \in Calls :
    /\ file.kind = "corrupt" /\ options.config_file # "null"
    /\ ready = "resolved" /\ state = EmptyState
    /\ calls[t].pc = "listen"

C15_SaveLoadRoundTrip ==
  LET o == [options EXCEPT !.config_file = "~/.feedly"]
      l == Loaded(o, EmptyState, SaveData(o, state))
  IN  /\ l.access_token = state.access_token
      /\ l.refresh_token = state.refresh_token
      /\ l.expires_in = state.expires_in
      /\ state.expires.ty \in {"Date", "number", "undefined"}
      /\ l.expires = IF state.expires.ty = "undefined" THEN NoExpires
                     ELSE DateOf(state.expires.ms)

\* the token file holds what an authorization saved, and loading it gives
\* the Credentials in memory back
C15_Witness ==
  /\ state.access_token = "a1" /\ state.expires = DateOf(now + ExpiresIn * 1000)
  /\ file = Json(stringify(state))
  /\ Loaded(options, EmptyState, file) = state

(***************************************************************************)
(* C16.  The callback listener (qserver): a request for a path other than  *)
(* "/" is answered 404 and leaves the promise pending and the listener     *)
(* open, however many came before; the request for "/" resolves the        *)
(* promise with its query, and from then on the listener is closed: the    *)
(* query the promise resolved with never changes and no further request    *)
(* is answered.                                                            *)
(***************************************************************************)
C16_ListenerResolvesOnceOnRoot ==
  [][\A t \in Calls :
       /\ calls'[t].strays > calls[t].strays
            => /\ calls[t].pc = "callback"
               /\ calls'[t] = [calls[t] EXCEPT !.strays = @ + 1]
       /\ ( calls[t].pc = "callback" /\ calls'[t].pc # "callback" )
            => /\ calls'[t].query \in Queries
               /\ calls'[t].pc \in {"token", "done"}
               /\ calls'[t].pc = "token" <=> calls'[t].query.code # NoStr
       /\ ( calls[t].pc \notin {"idle", "ready", "listen", "callback"}
             /\ calls'[t].pc # "idle" )
            => calls'[t].query = calls[t].query /\ calls'[t].strays <= calls[t].strays
       /\ calls[t].pc \in {"idle", "ready", "listen"} /\ calls'[t].pc # "token"
            => calls'[t].query = NoQuery]_vars

\* after a stray request was answered 404, the redirect to "/" has resolved
\* the promise with its query and the authorization_code request has gone out
C16_Witness ==
  \E t \in Calls :
    /\ calls[t].pc = "token" /\ calls[t].query = [code |-> "c1", error |-> NoStr]
    /\ calls[t].strays = MaxStray
    /\ "open" \in calls[t].hist /\ "code_x" \in calls[t].hist

(***************************************************************************)
(* C17.  When the callback listener cannot bind its port, or has a         *)
(* listener error before a request arrives, the promise of qserver is      *)
(* rejected, so that the full authorization ends rejected instead of       *)
(* staying pending.                                                        *)
(* The code does not do this: server.on('error') only closes the server.   *)
(***************************************************************************)
C17_ListenErrorRejects ==
  [][\A t \in Calls :
       ( calls[t].pc = "listen" /\ calls'[t].pc \notin {"listen", "callback"} )
         => calls'[t].pc = "done" /\ calls'[t].result.settled = "rejected"]_vars

C19_CallbackInvokedExactlyOnce ==
  [][\A t \in Calls :
       ( calls[t].cb /\ calls[t].pc # "idle" /\ calls'[t].pc = "idle" )
         => calls[t].cbs = << Invoked(calls[t].result) >>]_vars

(***************************************************************************)
(* C20.  Every public REST method first obtains a token through _getAuth   *)
(* and only then sends its single request, whose Authorization header is   *)
(* "OAuth " followed by exactly the token _getAuth returned; no REST       *)
(* request is sent before _getAuth has resolved.                           *)
(* The code does not do this for markEntrySaved and markEntryUnsaved,      *)
(* which throw before reaching _getAuth.                                   *)
(***************************************************************************)
C20_RestMethodsAuthenticateFirst ==
  [][\A t \in Calls :
       /\ ( calls[t].pc = "idle" /\ calls'[t].kind \in RestKinds )
            => calls'[t].pc \in {"ready", "listen", "refreshing", "done"}
       /\ ( "api_x" \notin calls[t].hist /\ "api_x" \in calls'[t].hist )
            => /\ calls[t].pc = "done" /\ calls[t].result.settled = "resolved"
               /\ calls'[t].header = "OAuth " \o calls[t].result.val
       /\ calls'[t].pc = "request" => calls[t].pc \in {"done", "request"}
       /\ ( calls[t].kind \in RestKinds /\ calls[t].pc = "done"
             /\ calls[t].result.settled = "resolved" /\ calls'[t].pc # "done" )
            => calls'[t].pc = "request" /\ "api_x" \in calls'[t].hist]_vars

(***************************************************************************)
(* C29.  Once logout() has resolved, and until a later call starts a new   *)
(* full authorization, the Credentials hold no access_token, refresh_token *)
(* or expires, in memory and in the token file: an exchange or refresh     *)
(* that was in flight when logout() ran does not reinstate them.           *)
(* The code does not do this: the answer to a request in flight is merged  *)
(* into the cleared state and saved.                                       *)
(***************************************************************************)
C29_LogoutIsNotUndoneByRequestsInFlight ==
  loggedOut = "done"
    => /\ state.access_token = NoStr /\ state.refresh_token = NoStr
       /\ ~NotNull(state.expires)
       /\ ( options.config_file # "null" /\ file.kind = "json" )
            => file.json.access_token = NoStr /\ file.json.refresh_token = NoStr

(***************************************************************************)
(* C21.  No call races the startup load: while this.ready has not resolved *)
(* every call made is waiting for it, having started no listener, sent no  *)
(* request and decided nothing, and the Credentials and the token file are *)
(* what the constructor and the previous run left; so the load, which runs *)
(* once, never overwrites what an authorization or refresh wrote.          *)
(***************************************************************************)
C21_NothingBeforeStartupLoad ==
  ready \in {"none", "pending"}
    => /\ \A t \in Calls :
            /\ calls[t].pc \in {"idle", "ready"}
            /\ calls[t].hist = {} /\ calls[t].result = Pending
            /\ calls[t].data = NoData
       /\ state \in {EmptyState, SuppliedState}
       /\ file \in InitialFiles
       /\ loggedOut = "no" /\ ~authorized

\* calls made right after construction wait for the load
C21_Witness ==
  /\ ready = "pending" /\ state = SuppliedState
  /\ calls[1].pc = "ready" /\ calls[1].kind = "api"
  /\ calls[2].pc = "ready" /\ calls[2].kind = "logout"

(***************************************************************************)
(* C22.  There is no single-flight guard: a _getAuth that runs while       *)
(* another call of the instance is authorizing or refreshing classifies    *)
(* the Credentials for itself and starts its own full authorization or     *)
(* refresh, so that two listeners and two token requests of one instance   *)
(* are in flight together.                                                 *)
(***************************************************************************)
C22_NoSingleFlightGuard ==
  [][\A t \in Calls :
       ( /\ Decides(t, "api")
         /\ \E u \in Calls \ {t} :
              calls[u].pc \in {"listen", "callback", "token", "refreshing"} )
         => LET branch == _getAuthBranch(state, now, options.slop)
            IN  /\ branch = "_auth" => calls'[t].pc = "listen"
                /\ branch = "_refresh" => calls'[t].pc = "refreshing"
                /\ branch \notin {"_auth", "_refresh"} => calls'[t].pc = "done"]_vars

\* two authorization_code requests of the instance are in flight, each
\* after a redirect to its own listener
C22_Witness ==
  /\ calls[1].kind = "api" /\ calls[1].pc = "token"
  /\ calls[2].kind = "api" /\ calls[2].pc = "token"
  /\ calls[1].cbURL # calls[2].cbURL
  /\ calls[1].sent.code # NoStr /\ calls[2].sent.code # NoStr

(***************************************************************************)
(* C23.  The consent flow has no timeout and no cancellation: a call that  *)
(* waits for the redirect stays pending, its listener open, whatever time  *)
(* passes and whatever else happens, until a request for "/" arrives; that *)
(* request resolves the promise and ends the listening.                    *)
(***************************************************************************)
C23_ConsentFlowNeverTimesOut ==
  [][\A t \in Calls :
       calls[t].pc = "callback"
         => \/ /\ calls'[t].pc = "callback" /\ calls'[t].result = Pending
               /\ calls'[t].query = NoQuery
            \/ /\ calls'[t].query \in Queries
               /\ calls'[t].pc \in {"token", "done"}
               /\ now' = now]_vars

\* the clock has run out and the call still waits for the redirect
C23_Witness ==
  \E t \in Calls :
    /\ calls[t].pc = "callback" /\ calls[t].result = Pending
    /\ now = MaxNow /\ now > 0

(***************************************************************************)
(* C28.  The methods that scope identifiers by user id read the id from    *)
(* Credentials that the startup load has established, also when they are   *)
(* called right after construction: this.state.id is never read while the  *)
(* load has not finished.                                                  *)
(* The code does not do this: the id is read in the method body, before    *)
(* anything is awaited.                                                    *)
(***************************************************************************)
C28_UserIdReadAfterLoad ==
  \A t \in Calls : calls[t].idread \in {"none", "resolved"}

(***************************************************************************)
(* C30.  Within one full authorization the browser is opened only once the *)
(* listener is bound, with the listener's address as redirect_uri; the     *)
(* authorization_code request is sent only after the redirect has been     *)
(* received on that listener, with the code it carried and the same        *)
(* redirect_uri.                                                           *)
(***************************************************************************)
C30_AuthorizationSequence ==
  \A t \in Calls :
    /\ calls[t].pc = "listen" => "open" \notin calls[t].hist
    /\ IF "open" \in calls[t].hist
         THEN /\ "listen" \in calls[t].hist
              /\ calls[t].cbURL = Address(t)
              /\ calls[t].opened.redirect_uri = Address(t)
         ELSE calls[t].opened = NoURL /\ calls[t].cbURL = NoStr
    /\ IF "code_x" \in calls[t].hist
         THEN /\ "open" \in calls[t].hist
              /\ calls[t].query.code # NoStr /\ calls[t].query.error = NoStr
              /\ calls[t].sent.code = calls[t].query.code
              /\ calls[t].sent.redirect_uri = calls[t].opened.redirect_uri
         ELSE calls[t].sent = NoRequest
    /\ calls[t].pc \in {"listen", "callback"} => calls[t].sent = NoRequest

\* a second authorization of the instance has sent its code with the
\* address of its own listener while the first still waits
C30_Witness ==
  /\ calls[1].pc = "callback" /\ calls[1].cbURL = Address(1)
  /\ calls[2].pc = "token"
  /\ calls[2].sent = [code |-> "c1", redirect_uri |-> Address(2)]
  /\ Address(1) # Address(2)

(***************************************************************************)
(* C27.  A failed authorization leaves the Credentials untouched: whenever *)
(* a full authorization or a refresh rejects, for whatever reason, a       *)
(* failure of the token-file write after a successful exchange included,   *)
(* this.state is then what it was when the attempt began.                  *)
(* The code merges the token response before it awaits the write.          *)
(***************************************************************************)
C27_FailedAttemptLeavesCredentials ==
  [][\A t \in Calls :
       ( /\ calls[t].kind \in {"api", "refresh"}
         /\ calls[t].pc \in {"callback", "token", "refreshing", "save"}
         /\ calls'[t].pc = "done" /\ calls'[t].result.settled = "rejected" )
         => state' = calls[t].before]_vars

(***************************************************************************)
(* C25.  A refresh token, once obtained, persists until explicit logout:   *)
(* a refresh exchange, successful or failed, leaves a refresh_token in the *)
(* Credentials, the stored one unless the response supplies a new one, and *)
(* no step other than logout() takes the refresh_token away.               *)
(* The refresh exchanges do keep it, but the startup load takes away the   *)
(* refresh_token handed to the constructor (see C12).                      *)
(***************************************************************************)
C25_RefreshTokenPersists ==
  [][/\ \A t \in Calls : \A r \in Responses(RefreshBodies) :
          ( calls[t].pc = "refreshing" /\ calls'[t].answer = AnswerOf(r)
            /\ calls'[t].body = r.body /\ calls'[t].pc \in {"save", "done"}
            /\ state.refresh_token # NoStr )
            => state'.refresh_token =
                 IF qrequest(r).settled = "resolved" /\ r.body.refresh_token # NoStr
                   THEN r.body.refresh_token ELSE state.refresh_token
     /\ ( state.refresh_token # NoStr /\ state'.refresh_token = NoStr )
          => \E t \in Calls : Decides(t, "logout")]_vars

(***************************************************************************)
(* C26.  Credentials are persisted after every mutation: with a token file *)
(* configured, whenever a full authorization, a refresh or a logout has    *)
(* resolved and no other call is in flight, the token file holds the       *)
(* Credentials in memory.                                                  *)
(***************************************************************************)
C26_FileEqualsCredentials ==
  ( /\ options.config_file # "null"
    /\ \E t \in Calls :
         /\ calls[t].pc = "done" /\ calls[t].result.settled = "resolved"
         /\ calls[t].hist \cap {"code_x", "refresh_x", "revoke_x"} # {}
    /\ \A t \in Calls : calls[t].pc \in {"idle", "done"} )
    => file = Json(stringify(state))

(***************************************************************************)
(* C24.  In every reachable state, whatever the token file held, whatever  *)
(* the constructor was given and whatever the token endpoint answered:     *)
(* Credentials that contain an access_token contain an expires value.      *)
(* The code takes the content of the token file as it is.                  *)
(***************************************************************************)
C24_AccessTokenHasExpires ==
  state.access_token # NoStr => NotNull(state.expires)

====
